---- MODULE Spec2Model ----
(***************************************************************************)
(* The request handlers of the text summarizer API                         *)
(* (project/app/api/summaries.py) as a state machine.                      *)
(*                                                                         *)
(* Every handler is an async coroutine: it gives up control at each        *)
(* `await`, so a handler is one action per awaited persistence call, and   *)
(* the handlers of concurrent requests interleave at those points.  The    *)
(* persistence layer (app.api.crud) and the summarizer                     *)
(* (app.summarizer.generate_summary) are not part of the handlers' file;   *)
(* they are modelled from the contracts the specification gives them.      *)
(***************************************************************************)
EXTENDS Integers, Sequences, FiniteSets, Bags

(* ------------------------------ bounds -------------------------------- *)

\* Number of state-changing requests (POST, PUT, DELETE) the clients send.
\* GET requests are not counted: they change nothing.
MaxRequests == 4

\* Validated url objects a payload may carry.
UrlObjects == {[href |-> "http://a.io/"], [href |-> "http://b.io/"]}

\* Bodies of POST /summaries/ (SummaryPayloadSchema).
SummaryPayloadSchema ==
    {[url |-> [href |-> "http://a.io/"], summarizer_specifier |-> "lsa", sentence_count |-> 5],
     [url |-> [href |-> "http://b.io/"], summarizer_specifier |-> "lex_rank", sentence_count |-> 7]}

\* Summary texts a client may send with an update.
UserTexts == {<<"s1">>}

\* Bodies of PUT /summaries/{id}/ (SummaryUpdatePayloadSchema).
SummaryUpdatePayloadSchema == [url : UrlObjects, summary : UserTexts]

\* The path parameter `id` (validated gt=0 before the handler runs): the ids
\* the persistence layer can assign within MaxRequests requests.
IdParams == 1..MaxRequests

(* ------------------------------ values -------------------------------- *)

\* Summary texts are tuples: the empty text, a client's text <<s>>, or the
\* text the summarizer generates for (url, specifier, sentence_count).
Empty == <<>>

NotFound == 404

\* str(payload.url): the string form of a validated url object.
Str(url) == url.href

\* int(payload.sentence_count): a positive int is its own int value.
ToInt(n) == n

VARIABLES
    db,          \* the stored records: id -> [id, url, summary]
    nextId,      \* the id the persistence layer assigns next
    creating,    \* create requests whose returned response is not yet sent
    deleting,    \* delete handlers between crud.get and crud.delete (a bag)
    tasks,       \* background tasks added and not yet run
    resp,        \* the response sent by the last step (op "none": none was)
    nReq,        \* state-changing requests received
    nCreates,    \* history: create responses sent
    nDeletes,    \* history: successful delete responses sent
    nScheduled,  \* history: calls of background_tasks.add_task
    issued,      \* history: the ids carried by the create responses sent
    deleted,     \* history: the ids of successful delete responses
    life,        \* history: summarizer writes applied to each stored record
    lost         \* history: ids whose summarizer write found no record

vars == <<db, nextId, creating, deleting, tasks, resp, nReq,
          nCreates, nDeletes, nScheduled, issued, deleted, life, lost>>

(* ---------------- persistence layer (app.api.crud) -------------------- *)

\* crud.post(payload): insert a record with the url and an empty summary.
crud_post(store, id, payload) ==
    [i \in DOMAIN store \cup {id} |->
        IF i = id THEN [id |-> id, url |-> Str(payload.url), summary |-> Empty]
                  ELSE store[i]]

\* crud.get(id): the record, or none. A found record is <<record>>.
crud_get(store, id) == IF id \in DOMAIN store THEN <<store[id]>> ELSE <<>>

\* crud.get_all(): every record, in insertion (id) order.
RECURSIVE crud_get_all_from(_, _, _)
crud_get_all_from(store, i, last) ==
    IF i > last THEN <<>>
    ELSE crud_get(store, i) \o crud_get_all_from(store, i + 1, last)

crud_get_all(store) == crud_get_all_from(store, 1, nextId - 1)

\* crud.put(id, payload): overwrite url and summary of id. The store after
\* the call, and its result: the updated record, or none when id is not stored.
crud_put(store, id, payload) ==
    IF id \in DOMAIN store
    THEN LET updated == [id |-> id, url |-> Str(payload.url), summary |-> payload.summary]
         IN [store |-> [store EXCEPT ![id] = updated], result |-> <<updated>>]
    ELSE [store |-> store, result |-> <<>>]

\* crud.delete(id): the store without id (the same store when id is not stored).
crud_delete(store, id) == [i \in DOMAIN store \ {id} |-> store[i]]

(* ------------------- summarizer (app.summarizer) ---------------------- *)

\* The text generate_summary produces for the article at url.
GeneratedText(url, specifier, sentence_count) == <<url, specifier, sentence_count>>

\* generate_summary's write: sets the summary of a record that exists.
write_summary(store, t) ==
    IF t.id \in DOMAIN store
    THEN [store EXCEPT ![t.id].summary = GeneratedText(t.url, t.summarizer_specifier, t.sentence_count)]
    ELSE store

(* --------------------------- the handlers ----------------------------- *)

\* A response on the wire: the request it answers (its operation and path id),
\* the status code and the records of the body.
Response(op, status, id, body) == [op |-> op, status |-> status, id |-> id, body |-> body]

NoResponse == Response("none", 0, 0, <<>>)

\* The history of the stored records: summarizer writes applied to each.
Born(h, id) == [i \in DOMAIN h \cup {id} |-> IF i = id THEN 0 ELSE h[i]]
Gone(h, id) == [i \in DOMAIN h \ {id} |-> h[i]]
Written(h, id) == [i \in DOMAIN h |-> IF i = id THEN h[i] + 1 ELSE h[i]]

\* The arguments create_summary hands to background_tasks.add_task.
GenerationTask(summary_id, payload) ==
    [id |-> summary_id,
     url |-> Str(payload.url),
     summarizer_specifier |-> payload.summarizer_specifier,
     sentence_count |-> ToInt(payload.sentence_count)]

\* A variant of SummaryResponseSchema: the id is taken one too low (the number
\* of records before the insert instead of the id crud.post returned).
SummaryResponseSchema_off_by_one(summary_id, payload) ==
    [url |-> Str(payload.url),
     id |-> summary_id - 1,
     summarizer_specifier |-> payload.summarizer_specifier,
     sentence_count |-> payload.sentence_count]

\* The SummaryResponseSchema create_summary builds.
SummaryResponseSchema(summary_id, payload) ==
    [url |-> Str(payload.url),
     id |-> summary_id,
     summarizer_specifier |-> payload.summarizer_specifier,
     sentence_count |-> payload.sentence_count]

\* A variant of create_summary: generate_summary is awaited in the handler
\* instead of being added to the background tasks.
create_summary_awaiting(payload) ==
    /\ nReq < MaxRequests
    /\ nReq' = nReq + 1
    /\ LET summary_id == nextId IN
        /\ db' = write_summary(crud_post(db, summary_id, payload),
                               GenerationTask(summary_id, payload))
        /\ life' = Written(Born(life, summary_id), summary_id)
        /\ creating' = creating \cup
             {[id |-> summary_id, payload |-> payload,
               response |-> SummaryResponseSchema(summary_id, payload)]}
    /\ nextId' = nextId + 1
    /\ resp' = NoResponse
    /\ UNCHANGED <<tasks, nScheduled, deleting, nCreates, nDeletes, issued, deleted, lost>>

\* create_summary, lines 37-52: insert the record, add the background task,
\* build the response and return it. crud.post is the handler's only await,
\* and what follows it touches nothing another request can see, so the
\* handler is one step. The returned response is not yet on the wire.
create_summary(payload) ==
    /\ nReq < MaxRequests
    /\ nReq' = nReq + 1
    /\ LET summary_id == nextId IN
        /\ db' = crud_post(db, summary_id, payload)
        /\ life' = Born(life, summary_id)
        /\ tasks' = tasks \cup {GenerationTask(summary_id, payload)}
        /\ creating' = creating \cup
             {[id |-> summary_id, payload |-> payload,
               response |-> SummaryResponseSchema(summary_id, payload)]}
    /\ nextId' = nextId + 1
    /\ nScheduled' = nScheduled + 1
    /\ resp' = NoResponse
    /\ UNCHANGED <<deleting, nCreates, nDeletes, issued, deleted, lost>>

\* The runtime sends the response create_summary returned (status 201);
\* only then are the request's background tasks run. (The other handlers
\* add no task, so their responses are sent in the step that returns them.)
CreateRespond(c) ==
    /\ c \in creating
    /\ resp' = Response("create", 201, 0, <<c.response>>)
    /\ issued' = issued \cup {c.response.id}
    /\ creating' = creating \ {c}
    /\ nCreates' = nCreates + 1
    /\ UNCHANGED <<db, nextId, deleting, tasks, nReq, nDeletes, nScheduled, deleted, life, lost>>

\* The runtime runs a background task of a request whose response was sent:
\* generate_summary(id, url, summarizer_specifier, sentence_count).
RunTask(t) ==
    /\ t \in tasks
    /\ \A c \in creating : c.id # t.id
    /\ db' = write_summary(db, t)
    /\ life' = Written(life, t.id)
    /\ tasks' = tasks \ {t}
    /\ lost' = IF t.id \in DOMAIN db THEN lost ELSE lost \cup {t.id}
    /\ resp' = NoResponse
    /\ UNCHANGED <<nextId, creating, deleting, nReq, nCreates, nDeletes, nScheduled, issued, deleted>>

\* A variant of read_summary: the `if not summary` check is missing.
read_summary_unchecked(id) ==
    /\ resp' = Response("get", 200, id, crud_get(db, id))
    /\ UNCHANGED <<db, nextId, creating, deleting, tasks, nReq,
                   nCreates, nDeletes, nScheduled, issued, deleted, life, lost>>

\* read_summary, lines 75-79.
read_summary(id) ==
    /\ LET summary == crud_get(db, id) IN
        IF summary = <<>>
        THEN resp' = Response("get", NotFound, id, <<>>)
        ELSE resp' = Response("get", 200, id, summary)
    /\ UNCHANGED <<db, nextId, creating, deleting, tasks, nReq,
                   nCreates, nDeletes, nScheduled, issued, deleted, life, lost>>

\* read_all_summaries, line 92.
read_all_summaries ==
    /\ resp' = Response("get_all", 200, 0, crud_get_all(db))
    /\ UNCHANGED <<db, nextId, creating, deleting, tasks, nReq,
                   nCreates, nDeletes, nScheduled, issued, deleted, life, lost>>

\* remove_summary, lines 117-120: summary = await crud.get(id); 404 if none.
DeleteLookup(id) ==
    /\ nReq < MaxRequests
    /\ nReq' = nReq + 1
    /\ LET summary == crud_get(db, id) IN
        IF summary = <<>>
        THEN /\ resp' = Response("delete", NotFound, id, <<>>)
             /\ UNCHANGED deleting
        ELSE /\ deleting' = deleting (+) SetToBag({[id |-> id, summary |-> summary]})
             /\ resp' = NoResponse
    /\ UNCHANGED <<db, nextId, creating, tasks,
                   nCreates, nDeletes, nScheduled, issued, deleted, life, lost>>

\* A variant of remove_summary: the call of crud.delete is missing.
DeleteRemove_without_delete(d) ==
    /\ BagIn(d, deleting)
    /\ deleting' = deleting (-) SetToBag({d})
    /\ resp' = Response("delete", 200, d.id, d.summary)
    /\ nDeletes' = nDeletes + 1
    /\ deleted' = deleted \cup {d.id}
    /\ UNCHANGED <<db, life, nextId, creating, tasks, nReq, nCreates, nScheduled, issued, lost>>

\* A variant of remove_summary: it also cancels the pending generation task
\* of the record it removes.
DeleteRemove_cancelling(d) ==
    /\ BagIn(d, deleting)
    /\ db' = crud_delete(db, d.id)
    /\ life' = Gone(life, d.id)
    /\ tasks' = {t \in tasks : t.id # d.id}
    /\ deleting' = deleting (-) SetToBag({d})
    /\ resp' = Response("delete", 200, d.id, d.summary)
    /\ nDeletes' = nDeletes + 1
    /\ deleted' = deleted \cup {d.id}
    /\ UNCHANGED <<nextId, creating, nReq, nCreates, nScheduled, issued, lost>>

\* remove_summary, lines 122-124: await crud.delete(id); return summary.
DeleteRemove(d) ==
    /\ BagIn(d, deleting)
    /\ db' = crud_delete(db, d.id)
    /\ life' = Gone(life, d.id)
    /\ deleting' = deleting (-) SetToBag({d})
    /\ resp' = Response("delete", 200, d.id, d.summary)
    /\ nDeletes' = nDeletes + 1
    /\ deleted' = deleted \cup {d.id}
    /\ UNCHANGED <<nextId, creating, tasks, nReq, nCreates, nScheduled, issued, lost>>

\* A variant of update_summary: it returns the record as it was read before
\* the update.
update_summary_stale(id, payload) ==
    /\ nReq < MaxRequests
    /\ nReq' = nReq + 1
    /\ LET put == crud_put(db, id, payload)
           summary == crud_get(db, id)
       IN /\ db' = put.store
          /\ IF summary = <<>>
             THEN resp' = Response("put", NotFound, id, <<>>)
             ELSE resp' = Response("put", 200, id, summary)
    /\ UNCHANGED <<life, nextId, creating, deleting, tasks,
                   nCreates, nDeletes, nScheduled, issued, deleted, lost>>

\* A variant of update_summary: a successful update adds a generation task
\* for the new url.
update_summary_regenerating(id, payload) ==
    /\ nReq < MaxRequests
    /\ nReq' = nReq + 1
    /\ LET put == crud_put(db, id, payload)
           summary == put.result
       IN /\ db' = put.store
          /\ IF summary = <<>>
             THEN /\ resp' = Response("put", NotFound, id, <<>>)
                  /\ UNCHANGED <<tasks, nScheduled>>
             ELSE /\ resp' = Response("put", 200, id, summary)
                  /\ tasks' = tasks \cup
                       {[id |-> id, url |-> Str(payload.url),
                         summarizer_specifier |-> "lsa", sentence_count |-> 5]}
                  /\ nScheduled' = nScheduled + 1
    /\ UNCHANGED <<life, nextId, creating, deleting,
                   nCreates, nDeletes, issued, deleted, lost>>

\* A variant of update_summary: a record whose generation task is pending is
\* locked, and the update is rejected.
update_summary_locked(id, payload) ==
    /\ nReq < MaxRequests
    /\ nReq' = nReq + 1
    /\ LET locked == \E t \in tasks : t.id = id
           put == IF locked THEN [store |-> db, result |-> <<>>]
                            ELSE crud_put(db, id, payload)
           summary == put.result
       IN /\ db' = put.store
          /\ IF summary = <<>>
             THEN resp' = Response("put", IF locked THEN 409 ELSE NotFound, id, <<>>)
             ELSE resp' = Response("put", 200, id, summary)
    /\ UNCHANGED <<life, nextId, creating, deleting, tasks,
                   nCreates, nDeletes, nScheduled, issued, deleted, lost>>

\* update_summary, lines 152-156.
update_summary(id, payload) ==
    /\ nReq < MaxRequests
    /\ nReq' = nReq + 1
    /\ LET put == crud_put(db, id, payload)
           summary == put.result
       IN /\ db' = put.store
          /\ IF summary = <<>>
             THEN resp' = Response("put", NotFound, id, <<>>)
             ELSE resp' = Response("put", 200, id, summary)
    /\ UNCHANGED <<life, nextId, creating, deleting, tasks,
                   nCreates, nDeletes, nScheduled, issued, deleted, lost>>

(* -------------------------- specification ----------------------------- *)

Init ==
    /\ db = <<>>
    /\ nextId = 1
    /\ creating = {}
    /\ deleting = EmptyBag
    /\ tasks = {}
    /\ resp = NoResponse
    /\ nReq = 0
    /\ nCreates = 0
    /\ nDeletes = 0
    /\ nScheduled = 0
    /\ issued = {}
    /\ deleted = {}
    /\ life = <<>>
    /\ lost = {}

Next ==
    \/ \E payload \in SummaryPayloadSchema : create_summary(payload)
    \/ \E c \in creating : CreateRespond(c)
    \/ \E t \in tasks : RunTask(t)
    \/ \E id \in IdParams : read_summary(id)
    \/ read_all_summaries
    \/ \E id \in IdParams : DeleteLookup(id)
    \/ \E d \in BagToSet(deleting) : DeleteRemove(d)
    \/ \E id \in IdParams, payload \in SummaryUpdatePayloadSchema : update_summary(id, payload)

Spec == Init /\ [][Next]_vars

(* ----------------------------- properties ----------------------------- *)

\* A step that touches neither the store nor any handler or task.
NoSideEffect ==
    /\ db' = db
    /\ tasks' = tasks
    /\ creating' = creating
    /\ deleting' = deleting
    /\ nextId' = nextId
    /\ nScheduled' = nScheduled

\* Every id the system holds anywhere: stored, answered, deleted, in a
\* pending task or held by a suspended handler.
KnownIds ==
    DOMAIN db \cup issued \cup deleted \cup lost
        \cup {c.id : c \in creating} \cup {t.id : t \in tasks}
        \cup {d.id : d \in BagToSet(deleting)}

\* C1: the response of a create request echoes the request's url,
\* summarizer_specifier and sentence_count, and carries the id of the record
\* the request inserted; that id was held by nothing before the insert (also
\* not by a deleted record) and no earlier create response carried it.
C1_CreateEchoesFreshId ==
    [][/\ \A payload \in SummaryPayloadSchema :
            create_summary(payload) =>
                /\ nextId \notin KnownIds
                /\ nextId \in DOMAIN db'
                /\ \E c \in creating' \ creating :
                      c.id = nextId /\ c.payload = payload
       /\ \A c \in creating :
            CreateRespond(c) =>
                /\ resp'.op = "create"
                /\ resp'.status = 201
                /\ resp'.body = <<[id |-> c.id,
                                   url |-> Str(c.payload.url),
                                   summarizer_specifier |-> c.payload.summarizer_specifier,
                                   sentence_count |-> c.payload.sentence_count]>>
                /\ c.id \notin issued
      ]_vars

\* C1 witness: a create response is sent after a record was deleted, and its
\* id is not the deleted record's.
C1_Witness ==
    /\ resp.op = "create"
    /\ deleted # {}
    /\ resp.body[1].id \notin deleted
    /\ resp.body[1].id > 1

\* C2: Get, Update and Delete of an id that is not stored answer Not-Found,
\* and the step changes no record, schedules no task and suspends no handler.
C2_NotFoundNoSideEffect ==
    [][\A id \in IdParams :
         id \notin DOMAIN db =>
            /\ read_summary(id) =>
                 (resp' = Response("get", NotFound, id, <<>>) /\ NoSideEffect)
            /\ DeleteLookup(id) =>
                 (resp' = Response("delete", NotFound, id, <<>>) /\ NoSideEffect)
            /\ \A payload \in SummaryUpdatePayloadSchema :
                 update_summary(id, payload) =>
                    (resp' = Response("put", NotFound, id, <<>>) /\ NoSideEffect)
      ]_vars

\* C2 witness: an update of an id that is not stored was answered Not-Found
\* while another record is stored and a task is pending.
C2_Witness ==
    /\ resp.op = "put"
    /\ resp.status = NotFound
    /\ resp.id \notin DOMAIN db
    /\ db # <<>>
    /\ tasks # {}

\* C3: a successful Delete returns the record as it was stored immediately
\* before the removal.
C3_DeleteReturnsStateBeforeRemoval ==
    [][\A d \in BagToSet(deleting) :
         (DeleteRemove(d) /\ d.id \in DOMAIN db) =>
            resp'.body = <<db[d.id]>>
      ]_vars

\* C4: once a Delete of id has answered with success, a Get of id answers
\* Not-Found.
C4_GetAfterDeleteNotFound ==
    [][\A id \in deleted :
         read_summary(id) => resp' = Response("get", NotFound, id, <<>>)
      ]_vars

\* C4 witness: a Get of a deleted id was answered Not-Found after a later
\* create inserted another record.
C4_Witness ==
    /\ resp.op = "get"
    /\ resp.status = NotFound
    /\ resp.id \in deleted
    /\ \E j \in DOMAIN db : j > resp.id

\* C5: an Update of a stored id answers 200 with the record of that id
\* carrying exactly the payload's url and summary, stores that record, and
\* leaves every other record as it was.
C5_UpdateOverwritesBoth ==
    [][\A id \in DOMAIN db, payload \in SummaryUpdatePayloadSchema :
         update_summary(id, payload) =>
            LET updated == [id |-> id, url |-> Str(payload.url), summary |-> payload.summary]
            IN /\ resp' = Response("put", 200, id, <<updated>>)
               /\ DOMAIN db' = DOMAIN db
               /\ db'[id] = updated
               /\ \A j \in DOMAIN db \ {id} : db'[j] = db[j]
      ]_vars

\* C5 witness: an update changed both the url and the summary of a record
\* while a second record is stored.
C5_Witness ==
    /\ resp.op = "put"
    /\ resp.status = 200
    /\ Cardinality(DOMAIN db) >= 2
    /\ \E t \in tasks : t.id = resp.id /\ t.url # resp.body[1].url

\* C6: when no handler is suspended, GetAll returns as many records as
\* create calls have returned minus delete calls that returned success.
C6_CountIsCreatesMinusDeletes ==
    (creating = {} /\ deleting = EmptyBag) =>
        Len(crud_get_all(db)) = nCreates - nDeletes

\* C7: every create call has added exactly one generation task, carrying the
\* id it was assigned and its url, summarizer_specifier and sentence_count;
\* no other handler has added one; the summarizer has written the summary of
\* a record at most once.
C7_OneTaskPerCreate ==
    /\ nScheduled = nextId - 1
    /\ \A t \in tasks : t.id < nextId
    /\ \A t1, t2 \in tasks : t1.id = t2.id => t1 = t2
    /\ \A c \in creating :
          [id |-> c.id,
           url |-> Str(c.payload.url),
           summarizer_specifier |-> c.payload.summarizer_specifier,
           sentence_count |-> c.payload.sentence_count] \in tasks
    /\ \A i \in DOMAIN life : life[i] <= 1
    /\ \A i \in DOMAIN life : life[i] = 0 \/ (\A t \in tasks : t.id # i)

\* C7 witness: the summarizer wrote a record's summary, an update then
\* overwrote it, and no task is pending for the record.
C7_Witness ==
    \E i \in DOMAIN db :
        /\ life[i] = 1
        /\ db[i].summary \in UserTexts
        /\ \A t \in tasks : t.id # i

\* The record stored for id is the one the create of task t inserted.
AsInserted(store, t) ==
    store[t.id] = [id |-> t.id, url |-> t.url, summary |-> Empty]

\* The ordering part of C8: a create inserts its record with an empty summary
\* and sends no response in that step; its response is sent while its task is
\* still pending; the task runs only after the response was sent.
TaskAfterResponse ==
    /\ \A payload \in SummaryPayloadSchema :
         create_summary(payload) =>
            /\ db'[nextId] = [id |-> nextId, url |-> Str(payload.url), summary |-> Empty]
            /\ resp' = NoResponse
            /\ nextId \notin issued'
            /\ \E t \in tasks' : t.id = nextId /\ AsInserted(db', t)
    /\ \A c \in creating :
         CreateRespond(c) => \E t \in tasks' : t.id = c.id
    /\ \A t \in tasks : RunTask(t) => t.id \in issued

\* C8 as stated: the ordering, and every Get of a record whose task has not
\* run returns the created url with an empty summary.
C8_GetBeforeTaskSeesCreated ==
    [][/\ TaskAfterResponse
       /\ \A t \in tasks :
            (t.id \in DOMAIN db /\ read_summary(t.id)) =>
                resp' = Response("get", 200, t.id,
                                 <<[id |-> t.id, url |-> t.url, summary |-> Empty]>>)
      ]_vars

\* C8 amended: the ordering; while a record's task is pending, the only step
\* that changes the stored record is a client's Update of it, so a Get issued
\* before the task runs and before any Update of the record returns the
\* created url with an empty summary, and after an Update it returns what
\* the Update stored.
C8_TaskRunsAfterResponse ==
    [][/\ TaskAfterResponse
       /\ \A t \in tasks :
            (t \in tasks' /\ t.id \in DOMAIN db /\ t.id \in DOMAIN db'
                /\ db'[t.id] # db[t.id]) =>
                \E payload \in SummaryUpdatePayloadSchema :
                    /\ update_summary(t.id, payload)
                    /\ db'[t.id] = [id |-> t.id, url |-> Str(payload.url),
                                    summary |-> payload.summary]
       /\ \A t \in tasks :
            (t.id \in DOMAIN db /\ read_summary(t.id)) =>
                /\ resp' = Response("get", 200, t.id, <<db[t.id]>>)
                /\ db' = db
      ]_vars

\* C8 witness: after the create response was sent and before the task ran, a
\* Get returned the record with the created url and an empty summary.
C8_Witness ==
    /\ resp.op = "get"
    /\ resp.status = 200
    /\ resp.body[1].summary = Empty
    /\ resp.id \in issued
    /\ \E t \in tasks : t.id = resp.id /\ t.url = resp.body[1].url

\* C9: a Delete leaves the pending generation tasks as they are; a task that
\* runs for an id that is not stored changes no record and creates none.
C9_DeleteLeavesTask ==
    [][/\ \A id \in IdParams : DeleteLookup(id) => tasks' = tasks
       /\ \A d \in BagToSet(deleting) : DeleteRemove(d) => tasks' = tasks
       /\ \A t \in tasks :
            (RunTask(t) /\ t.id \notin DOMAIN db) =>
                /\ db' = db
                /\ nCreates' = nCreates
                /\ nDeletes' = nDeletes
      ]_vars

\* C9 witness: the task of a deleted record ran after the delete, found no
\* record, and the other record is stored unchanged.
C9_Witness ==
    /\ \E i \in deleted : i \in lost /\ i \notin DOMAIN db
    /\ \E j \in DOMAIN db : db[j].summary = Empty

\* C10: an Update of a stored id is applied whether or not the id's
\* generation task has run, and the task's write is applied whether or not
\* the record was updated: it sets the summary to the text generated for the
\* created url and leaves the record's url as it is.
C10_LastWriterWins ==
    [][/\ \A id \in DOMAIN db, payload \in SummaryUpdatePayloadSchema :
            update_summary(id, payload) =>
                /\ resp'.status = 200
                /\ db'[id].summary = payload.summary
                /\ db'[id].url = Str(payload.url)
       /\ \A t \in tasks :
            (RunTask(t) /\ t.id \in DOMAIN db) =>
                /\ db'[t.id].summary =
                     GeneratedText(t.url, t.summarizer_specifier, t.sentence_count)
                /\ db'[t.id].url = db[t.id].url
      ]_vars

\* C10 witness: the task's write came after an update that changed the url:
\* the stored summary is the text generated for the created url.
C10_Witness ==
    \E i \in DOMAIN db :
        /\ Len(db[i].summary) = 3
        /\ db[i].summary[1] # db[i].url

====
